---- MODULE Spec2Model ----
(***************************************************************************)
(* Model of aura-arch (src/rust/aura-arch/src/lib.rs): the `orphans`       *)
(* query over the local package database of an `alpm` handle.              *)
(*                                                                         *)
(*   pub fn orphans(alpm: &Alpm) -> Vec<Package> {                         *)
(*       alpm.localdb().pkgs().iter()                                      *)
(*           .filter(|p| p.reason() == PackageReason::Depend               *)
(*                       && p.required_by().is_empty()                     *)
(*                       && p.optional_for().is_empty())                   *)
(*           .collect()                                                    *)
(*   }                                                                     *)
(*                                                                         *)
(* The iterator chain is lazy: `collect` drives the loop, pulling one      *)
(* package at a time out of the list, testing the closure and pushing the  *)
(* package onto the vector.  The model takes one step per package.         *)
(***************************************************************************)
EXTENDS Integers, Sequences, FiniteSets

(* Bounds of the model. *)
MaxPkgs == 2        \* number of distinct package names that may be installed
MaxCalls == 2       \* number of calls of orphans() in one behaviour

VARIABLES
    localdb,    \* alpm.localdb().pkgs(): the installed packages, in list order
    pc,         \* "idle" | "iter" | "returned" | "error": where the call stands
    pos,        \* the iterator's position in localdb (1-based, next to visit)
    acc,        \* the Vec that collect() is building
    result,     \* the Vec returned by the last finished call
    calls,      \* number of calls started
    returned    \* history: for each finished call, the list it saw and its Vec

vars == <<localdb, pc, pos, acc, result, calls, returned>>

----------------------------------------------------------------------------
(* Data: alpm::PackageReason and the attributes of alpm::Package read by   *)
(* the closure.                                                            *)

Explicit == "Explicit"
Depend == "Depend"
PackageReason == {Explicit, Depend}

PkgNames == 1..MaxPkgs

(* The links that may exist among the packages `installed`: for each      *)
(* package, the set of other installed packages that point at it.  A       *)
(* package never depends on itself.                                        *)
Links(installed) ==
    {l \in [installed -> SUBSET installed] : \A n \in installed : n \notin l[n]}

(* The orders in which the packages of `installed` may be listed. *)
Orders(installed) ==
    {ord \in [1..Cardinality(installed) -> installed] :
        \A i, j \in DOMAIN ord : ord[i] = ord[j] => i = j}

(* The package list of a local database: the installed packages in the    *)
(* order ord, each with its install reason and its reverse links.          *)
PkgList(ord, reason, required_by, optional_for) ==
    [i \in DOMAIN ord |->
        [name |-> ord[i], reason |-> reason[ord[i]],
         required_by |-> required_by[ord[i]],
         optional_for |-> optional_for[ord[i]]]]

----------------------------------------------------------------------------
(* Variants of the closure, each differing from it by one slip. *)
IsOrphan_NoOptional(p) ==
    /\ p.reason = Depend
    /\ p.required_by = {}

IsOrphan_NoReason(p) ==
    /\ p.required_by = {}
    /\ p.optional_for = {}

IsOrphan_WrongReason(p) ==
    /\ p.reason = Explicit
    /\ p.required_by = {}
    /\ p.optional_for = {}

(* A closure that looks through the reverse links: a package counts as     *)
(* unrequired when everything that requires it is itself unrequired.       *)
IsOrphan_Transitive(p) ==
    /\ p.reason = Depend
    /\ p.optional_for = {}
    /\ \A n \in p.required_by :
         \E i \in DOMAIN localdb :
            /\ localdb[i].name = n
            /\ localdb[i].reason = Depend
            /\ localdb[i].required_by = {}
            /\ localdb[i].optional_for = {}

(* The closure passed to filter(). *)
IsOrphan(p) ==
    /\ p.reason = Depend
    /\ p.required_by = {}
    /\ p.optional_for = {}

(* One turn of collect()'s loop over the Filter iterator: the package is   *)
(* pushed onto the end of the vector iff the closure accepts it.           *)
FilterPush_Prepend(v, p) == IF IsOrphan(p) THEN <<p>> \o v ELSE v

FilterPush(v, p) == IF IsOrphan(p) THEN Append(v, p) ELSE v

(* iter().filter(..).collect() over a whole list, front to back. *)
RECURSIVE Collect(_, _)
Collect(s, v) ==
    IF s = <<>> THEN v ELSE Collect(Tail(s), FilterPush(v, Head(s)))

OrphanFilter(s) == Collect(s, <<>>)

----------------------------------------------------------------------------
Init ==
    /\ \E installed \in SUBSET PkgNames :
        \E ord \in Orders(installed), reason \in [installed -> PackageReason],
           required_by \in Links(installed), optional_for \in Links(installed) :
            localdb = PkgList(ord, reason, required_by, optional_for)
    /\ pc = "idle"
    /\ pos = 1
    /\ acc = <<>>
    /\ result = <<>>
    /\ calls = 0
    /\ returned = <<>>

(* A call whose iterator starts one package too far. *)
Call_SkipFirst ==
    /\ pc \in {"idle", "returned"}
    /\ calls < MaxCalls
    /\ pc' = "iter"
    /\ pos' = 2
    /\ acc' = <<>>
    /\ calls' = calls + 1
    /\ UNCHANGED <<localdb, result, returned>>

(* orphans(&alpm) is entered: the iterator is created at the list's head   *)
(* and collect() starts from an empty Vec.                                 *)
Call ==
    /\ pc \in {"idle", "returned"}
    /\ calls < MaxCalls
    /\ pc' = "iter"
    /\ pos' = 1
    /\ acc' = <<>>
    /\ calls' = calls + 1
    /\ UNCHANGED <<localdb, result, returned>>

(* The iterator yields the next package; the closure decides. *)
FilterNext ==
    /\ pc = "iter"
    /\ pos <= Len(localdb)
    /\ acc' = FilterPush(acc, localdb[pos])
    /\ pos' = pos + 1
    /\ UNCHANGED <<localdb, pc, result, calls, returned>>

(* Variants of the return. *)
(* The packages come back in an order of the collection's choosing. *)
Return_Unordered ==
    /\ pc = "iter"
    /\ pos > Len(localdb)
    /\ pc' = "returned"
    /\ \E perm \in Orders(DOMAIN acc) :
        /\ result' = [i \in DOMAIN acc |-> acc[perm[i]]]
        /\ returned' = Append(returned, [db |-> localdb, out |-> result'])
    /\ UNCHANGED <<localdb, pos, acc, calls>>

(* The returned packages are moved out of the list rather than borrowed. *)
Return_Drain ==
    /\ pc = "iter"
    /\ pos > Len(localdb)
    /\ pc' = "returned"
    /\ result' = acc
    /\ returned' = Append(returned, [db |-> localdb, out |-> acc])
    /\ localdb' = SelectSeq(localdb, LAMBDA p : \A j \in DOMAIN acc : acc[j] # p)
    /\ UNCHANGED <<pos, acc, calls>>

(* An empty Vec is reported as a failure. *)
Return_Err ==
    /\ pc = "iter"
    /\ pos > Len(localdb)
    /\ pc' = IF acc = <<>> THEN "error" ELSE "returned"
    /\ result' = acc
    /\ returned' = Append(returned, [db |-> localdb, out |-> acc])
    /\ UNCHANGED <<localdb, pos, acc, calls>>

(* The iterator is exhausted: collect() hands the Vec back to the caller. *)
Return ==
    /\ pc = "iter"
    /\ pos > Len(localdb)
    /\ pc' = "returned"
    /\ result' = acc
    /\ returned' = Append(returned, [db |-> localdb, out |-> acc])
    /\ UNCHANGED <<localdb, pos, acc, calls>>

Next == Call \/ FilterNext \/ Return

Spec == Init /\ [][Next]_vars

----------------------------------------------------------------------------
(* Properties.                                                             *)

(* p is an element of the vector v. *)
InVec(v, p) == \E j \in DOMAIN v : v[j] = p

(* The three conditions of the orphan predicate, stated on the attributes. *)
Qualifies(p) ==
    p.reason = Depend /\ p.required_by = {} /\ p.optional_for = {}

(* C1 - Soundness: every package returned by orphans was installed as a   *)
(* dependency and has an empty required_by and an empty optional_for.     *)
C1_Soundness ==
    pc = "returned" =>
        \A j \in DOMAIN result :
            /\ result[j].reason = Depend
            /\ result[j].required_by = {}
            /\ result[j].optional_for = {}

C1_Witness ==
    /\ pc = "returned"
    /\ result # <<>>
    /\ \E i \in DOMAIN localdb : ~InVec(result, localdb[i])

(* C2 - Completeness: every package of the list that was installed as a   *)
(* dependency and has empty required_by and optional_for is returned.     *)
C2_Completeness ==
    pc = "returned" =>
        \A i \in DOMAIN localdb :
            Qualifies(localdb[i]) => InVec(result, localdb[i])

C2_Witness ==
    /\ pc = "returned"
    /\ \E i, k \in DOMAIN localdb :
        /\ i # k
        /\ Qualifies(localdb[i]) /\ Qualifies(localdb[k])
        /\ InVec(result, localdb[i]) /\ InVec(result, localdb[k])

(* C3 - Order preservation: the returned vector is a subsequence of the   *)
(* list: its elements sit at strictly increasing positions of the list,   *)
(* and every surviving position contributes exactly one element.          *)
C3_OrderPreserved ==
    pc = "returned" =>
        \E f \in [DOMAIN result -> DOMAIN localdb] :
            /\ \A j \in DOMAIN result : result[j] = localdb[f[j]]
            /\ \A j, k \in DOMAIN result : j < k => f[j] < f[k]
            /\ {f[j] : j \in DOMAIN result} =
                   {i \in DOMAIN localdb : Qualifies(localdb[i])}

C3_Witness ==
    /\ pc = "returned"
    /\ Len(result) >= 2
    /\ result[1].name > result[2].name
    /\ localdb[1] = result[1]

(* C4 - Idempotence: filtering the returned vector again, its packages'   *)
(* attributes unchanged, yields the same vector.                          *)
C4_Idempotent ==
    pc = "returned" => OrphanFilter(result) = result

C4_Witness ==
    /\ pc = "returned"
    /\ Len(result) >= 2
    /\ OrphanFilter(result) = result

(* C5 - A package installed as a dependency that nothing requires but     *)
(* that is optional for some package is never returned.                   *)
C5_OptionalDisqualifies ==
    pc = "returned" =>
        \A i \in DOMAIN localdb :
            (/\ localdb[i].reason = Depend
             /\ localdb[i].required_by = {}
             /\ localdb[i].optional_for # {}) => ~InVec(result, localdb[i])

C5_Witness ==
    /\ pc = "returned"
    /\ \E i \in DOMAIN localdb :
        /\ localdb[i].reason = Depend
        /\ localdb[i].required_by = {}
        /\ localdb[i].optional_for # {}
        /\ ~InVec(result, localdb[i])

(* C6 - An explicitly installed package is never returned, even when      *)
(* nothing requires it and it is optional for nothing.                    *)
C6_ExplicitNeverOrphan ==
    pc = "returned" =>
        \A i \in DOMAIN localdb :
            localdb[i].reason = Explicit => ~InVec(result, localdb[i])

C6_Witness ==
    /\ pc = "returned"
    /\ \E i \in DOMAIN localdb :
        /\ localdb[i].reason = Explicit
        /\ localdb[i].required_by = {}
        /\ localdb[i].optional_for = {}
        /\ ~InVec(result, localdb[i])

(* C7 - No error outcome: a call never ends in an error, a call under way *)
(* can always take its next step, what it returns is a vector of packages *)
(* of the list, and an empty list yields an empty vector.                 *)
C7_NoErrorOutcome ==
    /\ pc # "error"
    /\ pc = "iter" => ENABLED (FilterNext \/ Return)
    /\ pc = "returned" =>
        /\ result \in Seq({localdb[i] : i \in DOMAIN localdb})
        /\ localdb = <<>> => result = <<>>

C7_Witness ==
    /\ pc = "returned"
    /\ localdb = <<>>
    /\ result = <<>>

(* C8 - Determinism: any two finished calls that saw the same list        *)
(* returned the same vector.                                              *)
C8_Deterministic ==
    \A i, j \in DOMAIN returned :
        returned[i].db = returned[j].db => returned[i].out = returned[j].out

C8_Witness ==
    /\ Len(returned) >= 2
    /\ returned[1].db = returned[2].db
    /\ Len(returned[1].out) >= 2
    /\ returned[2].out = returned[1].out

(* C9 - Frame: no step of orphans changes the list: its packages, their   *)
(* order and their attributes stay as they were before the call.          *)
C9_Frame == [][localdb' = localdb]_vars

C9_Witness ==
    /\ pc = "returned"
    /\ calls >= 2
    /\ result # <<>>
    /\ Len(localdb) > Len(result)

(* C10 - Single pass, no transitive closure: a package is returned iff it *)
(* would be returned from a list holding it alone, and a package required *)
(* only by packages that are themselves returned is not returned.         *)
C10_NoTransitiveClosure ==
    pc = "returned" =>
        \A i \in DOMAIN localdb :
            /\ InVec(result, localdb[i]) <=>
                   OrphanFilter(<<localdb[i]>>) = <<localdb[i]>>
            /\ (/\ localdb[i].required_by # {}
                /\ localdb[i].required_by \subseteq
                       {result[j].name : j \in DOMAIN result})
               => ~InVec(result, localdb[i])

(* A package that one call leaves out although removing the returned      *)
(* packages would leave it an orphan.                                     *)
C10_Witness ==
    /\ pc = "returned"
    /\ \E i \in DOMAIN localdb :
        /\ ~InVec(result, localdb[i])
        /\ localdb[i].required_by # {}
        /\ localdb[i].required_by \subseteq {result[j].name : j \in DOMAIN result}
        /\ IsOrphan([localdb[i] EXCEPT !.required_by = {}])

====
